---- MODULE Spec2Model ----
(***************************************************************************)
(* Model of vs-git-away (src/src/extension.ts): the exclusion file         *)
(* .git/info/exclude, the three commands of the extension and the tree     *)
(* data provider that displays the list.                                   *)
(*                                                                         *)
(* A JavaScript string is a sequence of one-character strings, so that     *)
(* split, trim, join, includes and replace are computed as the code        *)
(* computes them.                                                          *)
(***************************************************************************)
EXTENDS Integers, Sequences, FiniteSets, TLC

(* ------------------------------ bounds --------------------------------- *)

\* longest content of the exclusion file in an initial state
MaxInit == 2
\* longest content the add operation may write (caps the growth of the file)
MaxContent == 5
\* most command handlers suspended at their await at one time
MaxPending == 2

(* ------------------------------ strings -------------------------------- *)

NL == "\n"
SP == " "
HASH == "#"
BSL == "\\"
FSL == "/"

\* characters a hand-edited exclusion file is drawn from
FileChar == {"a", SP, HASH, NL}

\* String.prototype.trim strips white space and line terminators
WhiteSpace == {SP, NL}

Strings(n) == UNION {[1..m -> FileChar] : m \in 0..n}

RECURSIVE TrimLeft(_)
TrimLeft(s) ==
    IF s = <<>> THEN <<>>
    ELSE IF Head(s) \in WhiteSpace THEN TrimLeft(Tail(s)) ELSE s

RECURSIVE TrimRight(_)
TrimRight(s) ==
    IF s = <<>> THEN <<>>
    ELSE IF s[Len(s)] \in WhiteSpace THEN TrimRight(SubSeq(s, 1, Len(s) - 1)) ELSE s

\* s.trim()
Trim(s) == TrimRight(TrimLeft(s))

\* s.split('\n'): the pieces between line feeds, always at least one piece
RECURSIVE Split(_)
Split(s) ==
    IF \A i \in 1..Len(s) : s[i] # NL THEN <<s>>
    ELSE LET k == CHOOSE i \in 1..Len(s) : s[i] = NL /\ \A j \in 1..(i - 1) : s[j] # NL
         IN <<SubSeq(s, 1, k - 1)>> \o Split(SubSeq(s, k + 1, Len(s)))

\* lines.join('\n'); the empty array joins to the empty string
RECURSIVE Join(_)
Join(lines) ==
    IF lines = <<>> THEN <<>>
    ELSE IF Len(lines) = 1 THEN lines[1]
    ELSE lines[1] \o <<NL>> \o Join(Tail(lines))

\* lines.includes(x): strict equality against the raw lines
Includes(lines, x) == \E i \in 1..Len(lines) : lines[i] = x

\* line.startsWith('#')
StartsWithHash(s) == s # <<>> /\ s[1] = HASH

\* p.replace(/\\/g, '/')
ReplaceBackslashes(p) == [i \in 1..Len(p) |-> IF p[i] = BSL THEN FSL ELSE p[i]]

\* lines.map(line => line.trim())
TrimAll(lines) == [i \in 1..Len(lines) |-> Trim(lines[i])]

(* ------------------------------- paths --------------------------------- *)

\* workspaceFolders[0].uri.fsPath
WorkspaceRoot == "/ws"

\* an absolute path below the workspace root: the root and the remainder in
\* the platform's own notation (the separator is a backslash on Windows)
FsPath(rest) == [root |-> WorkspaceRoot, rest |-> rest]

\* path.relative(from, to): the remainder of a path below `from`; the paths
\* handed to the commands are all below the workspace root
PathRelative(from, to) == IF to.root = from THEN to.rest ELSE <<".", ".">>

\* path.join(workspaceRoot, excludedPath)
PathJoin(root, rel) == [root |-> root, rest |-> rel]

\* remainders of the paths the explorer can hand to the exclude command: plain
\* names, a name with a leading blank, a name that starts with '#', the
\* workspace root itself and a Windows path with a directory
Paths == {<<"a">>, <<"b">>, <<SP, "a">>, <<HASH, "a">>, <<>>, <<"a", BSL, "b">>}

\* labels the remove command can be invoked with
Labels == {<<"a">>, <<"b">>, <<HASH, "a">>, <<>>, <<"a", FSL, "b">>}

\* what the workspace holds on disk at the time of a display query
DiskStates == {{}, {<<"a">>}}

\* no argument / no previous call
NoArg == <<"<none>">>

(* ------------------------------- state --------------------------------- *)

VARIABLES
    ws,        \* vscode.workspace.workspaceFolders is non-empty
    dir,       \* <root>/.git/info exists
    file,      \* <root>/.git/info/exclude exists
    content,   \* its content (empty while it does not exist)
    pending,   \* command handlers suspended at `await`, oldest first
    notified,  \* onDidChangeTreeData fired and the view has not re-queried yet
    last,      \* the latest call: what it was given, saw and reported
    prevAdd    \* the exclude call right before the latest call, if any

vars == <<ws, dir, file, content, pending, notified, last, prevAdd>>

NoCall ==
    [cmd |-> "none", arg |-> NoArg, entry |-> NoArg, outcome |-> "none", ok |-> FALSE,
     msgs |-> <<>>, threw |-> "none",
     preDir |-> FALSE, preFile |-> FALSE, preContent |-> <<>>, overlapped |-> NoArg,
     disk |-> {}, nodes |-> <<>>]

Init ==
    /\ ws \in BOOLEAN
    /\ dir \in BOOLEAN
    /\ file \in BOOLEAN
    /\ file => dir
    /\ content \in Strings(MaxInit)
    /\ ~file => content = <<>>
    /\ pending = <<>>
    /\ notified = FALSE
    /\ last = NoCall
    /\ prevAdd = NoCall

\* the extension is activated on a repository with no exclusion file or an empty one
InitFresh ==
    /\ Init
    /\ content = <<>>

(* ------------------------------ list store ----------------------------- *)

\* what a helper hands back: the file system it leaves, its outcome, the
\* boolean it returns and the notifications it showed. A helper is given the
\* file-system call that throws in this call ("mkdir", "read", "write", or
\* "none"); the throw takes effect if the call is reached, and a write that
\* throws leaves the file as it was. fs.existsSync never throws.
Result(d, f, c, outcome, ok, msgs) ==
    [dir |-> d, file |-> f, content |-> c, outcome |-> outcome, ok |-> ok, msgs |-> msgs,
     threw |-> "none"]

\* the catch block of a helper with its result handed back as if nothing had
\* been thrown: return true
Caught_ReturnsTrue(d, step) ==
    [Result(d, file, content, "IOError", TRUE, <<"error">>) EXCEPT !.threw = step]

\* the catch block of either helper: the call `step` threw with the directory
\* in state d; console.error, showErrorMessage, return false
Caught(d, step) ==
    [Result(d, file, content, "IOError", FALSE, <<"error">>) EXCEPT !.threw = step]

\* the filter without the comment test: .filter(line => line)
IsEntryLine_KeepsComments(line) == line # <<>>

\* .filter(line => line && !line.startsWith('#'))
IsEntryLine(line) == line # <<>> /\ ~StartsWithHash(line)

\* excludeContent.split('\n').map(line => line.trim()).filter(...)
ParseEntries(excludeContent) == SelectSeq(TrimAll(Split(excludeContent)), IsEntryLine)

\* getExcludedFiles(): the entries of the list; any failure gives the empty list.
\* `fault` names the file-system call that throws in this call, if it is reached.
GetExcludedFiles(fault) ==
    IF ~ws THEN <<>>
    ELSE IF ~file THEN <<>>
    ELSE IF fault = "read" THEN <<>>
    ELSE ParseEntries(content)

\* the readFileSync of getExcludedFiles is reached and throws
LoadThrows(fault) == ws /\ file /\ fault = "read"

\* the filter that drops only the first matching line
FilterLines_FirstOnly(lines, excludedPath) ==
    LET hits == {i \in 1..Len(lines) : Trim(lines[i]) = excludedPath}
        first == CHOOSE i \in hits : \A j \in hits : i <= j
    IN  IF hits = {} THEN lines
        ELSE SubSeq(lines, 1, first - 1) \o SubSeq(lines, first + 1, Len(lines))

\* the filter without the trim: lines.filter(line => line !== excludedPath)
FilterLines_Untrimmed(lines, excludedPath) ==
    LET Keep(line) == line # excludedPath IN SelectSeq(lines, Keep)

\* lines.filter(line => line.trim() !== excludedPath)
FilterLines(lines, excludedPath) ==
    LET Keep(line) == Trim(line) # excludedPath IN SelectSeq(lines, Keep)

\* removeFileFromExclude made to create the directory first, as excludeFileFromGit does
RemoveFileFromExclude_Mkdir(excludedPath, fault) ==
    IF ~ws THEN Result(dir, file, content, "NoWorkspace", FALSE, <<"error">>)
    ELSE IF ~file THEN Result(TRUE, file, content, "FileMissing", FALSE, <<"warning">>)
    ELSE IF fault = "read" THEN Caught(dir, "read")
    ELSE LET lines == Split(content)
             filteredLines == FilterLines(lines, excludedPath)
         IN  IF Len(filteredLines) = Len(lines)
             THEN Result(dir, file, content, "NotFound", FALSE, <<"warning">>)
             ELSE IF fault = "write"
             THEN Caught(dir, "write")
             ELSE Result(dir, file, Join(filteredLines), "Removed", TRUE, <<"info">>)

\* removeFileFromExclude(excludedPath)
RemoveFileFromExclude(excludedPath, fault) ==
    IF ~ws THEN Result(dir, file, content, "NoWorkspace", FALSE, <<"error">>)
    ELSE IF ~file THEN Result(dir, file, content, "FileMissing", FALSE, <<"warning">>)
    ELSE IF fault = "read" THEN Caught(dir, "read")
    ELSE LET lines == Split(content)
             filteredLines == FilterLines(lines, excludedPath)
         IN  IF Len(filteredLines) = Len(lines)
             THEN Result(dir, file, content, "NotFound", FALSE, <<"warning">>)
             ELSE IF fault = "write"
             THEN Caught(dir, "write")
             ELSE Result(dir, file, Join(filteredLines), "Removed", TRUE, <<"info">>)

\* the duplicate check of excludeFileFromGit: lines.includes(pathToAdd)
AlreadyListed(excludeContent, pathToAdd) == Includes(Split(excludeContent), pathToAdd)

\* the append without the closing line feed:
\* excludeContent.trim() + (excludeContent.trim() ? '\n' : '') + pathToAdd
AppendEntry_NoTrailingNewline(excludeContent, pathToAdd) ==
    Trim(excludeContent)
        \o (IF Trim(excludeContent) # <<>> THEN <<NL>> ELSE <<>>)
        \o pathToAdd

\* the append without the separating line feed: excludeContent.trim() + pathToAdd + '\n'
AppendEntry_NoSeparator(excludeContent, pathToAdd) ==
    Trim(excludeContent) \o pathToAdd \o <<NL>>

\* excludeContent.trim() + (excludeContent.trim() ? '\n' : '') + pathToAdd + '\n'
AppendEntry(excludeContent, pathToAdd) ==
    Trim(excludeContent)
        \o (IF Trim(excludeContent) # <<>> THEN <<NL>> ELSE <<>>)
        \o pathToAdd \o <<NL>>

\* path.relative(workspaceRoot, filePath).replace(/\\/g, '/')
Normalize(filePath) == ReplaceBackslashes(PathRelative(WorkspaceRoot, filePath))

\* excludeFileFromGit with its read moved before a suspension: a call that
\* begins while another exclude handler is suspended works on the content that
\* handler had read
ExcludeFileFromGit_Stale(filePath, fault) ==
    IF ~ws THEN Result(dir, file, content, "NoWorkspace", FALSE, <<"error">>)
    ELSE IF ~dir /\ fault = "mkdir"
    THEN Caught(dir, "mkdir")
    ELSE IF file /\ fault = "read"
    THEN Caught(TRUE, "read")
    ELSE LET stale == last.cmd = "excludeFromGit" /\ pending # <<>>
             excludeContent == IF stale THEN last.preContent
                               ELSE IF file THEN content ELSE <<>>
             pathToAdd == Normalize(filePath)
         IN  IF AlreadyListed(excludeContent, pathToAdd)
             THEN Result(TRUE, file, content, "AlreadyPresent", TRUE, <<"info">>)
             ELSE IF fault = "write"
             THEN Caught(TRUE, "write")
             ELSE Result(TRUE, TRUE, AppendEntry(excludeContent, pathToAdd),
                         "Added", TRUE, <<"info">>)

\* excludeFileFromGit(filePath)
ExcludeFileFromGit(filePath, fault) ==
    IF ~ws THEN Result(dir, file, content, "NoWorkspace", FALSE, <<"error">>)
    ELSE IF ~dir /\ fault = "mkdir"
    THEN Caught(dir, "mkdir")
    ELSE IF file /\ fault = "read"
    THEN Caught(TRUE, "read")
    ELSE LET excludeContent == IF file THEN content ELSE <<>>
             pathToAdd == Normalize(filePath)
         IN  IF AlreadyListed(excludeContent, pathToAdd)
             THEN Result(TRUE, file, content, "AlreadyPresent", TRUE, <<"info">>)
             ELSE IF fault = "write"
             THEN Caught(TRUE, "write")
             ELSE Result(TRUE, TRUE, AppendEntry(excludeContent, pathToAdd),
                         "Added", TRUE, <<"info">>)

(* --------------------------- tree data provider ------------------------ *)

\* a GitAwayTreeItem; command is NoCommand when the constructor got undefined
NoCommand == [command |-> "none", arguments |-> <<>>]

GitAwayTreeItem(label, icon, command) ==
    [label |-> label, iconPath |-> icon, command |-> command,
     tooltip |-> label, contextValue |-> "gitAwayItem"]

\* the informational item shown for an empty list
PlaceholderLabel == <<"no excluded files">>
Placeholder == GitAwayTreeItem(PlaceholderLabel, "info", NoCommand)

\* the item built for one entry of the list
FileItem(excludedPath, disk) ==
    LET fullPath == PathJoin(WorkspaceRoot, excludedPath)
        fileExists == fullPath.rest \in disk
        command == IF fileExists
                   THEN [command |-> "vscode.open", arguments |-> <<fullPath>>]
                   ELSE NoCommand
        treeItem == GitAwayTreeItem(excludedPath, IF fileExists THEN "file" ELSE "warning",
                                    command)
    IN  [treeItem EXCEPT !.tooltip = <<IF fileExists THEN "excluded: " ELSE "excluded (missing): ">>
                                          \o excludedPath,
                         !.contextValue = "excludedFile"]

\* primary collation order of the characters of the model under localeCompare:
\* white space, then punctuation, then letters
CollationRank(c) ==
    CASE c = NL -> 0
      [] c = SP -> 1
      [] c = FSL -> 2
      [] c = BSL -> 3
      [] c = HASH -> 4
      [] c = "a" -> 5
      [] c = "b" -> 6
      [] OTHER -> 7

\* a.localeCompare(b) < 0, = 0, > 0 as -1, 0, 1
RECURSIVE LocaleCompare(_, _)
LocaleCompare(a, b) ==
    IF a = <<>> /\ b = <<>> THEN 0
    ELSE IF a = <<>> THEN -1
    ELSE IF b = <<>> THEN 1
    ELSE IF CollationRank(Head(a)) < CollationRank(Head(b)) THEN -1
    ELSE IF CollationRank(Head(a)) > CollationRank(Head(b)) THEN 1
    ELSE LocaleCompare(Tail(a), Tail(b))

\* files.sort((a, b) => a.label.localeCompare(b.label)); the sort is stable
RECURSIVE InsertItem(_, _)
InsertItem(sorted, item) ==
    IF sorted = <<>> THEN <<item>>
    ELSE IF LocaleCompare(item.label, sorted[Len(sorted)].label) >= 0
    THEN Append(sorted, item)
    ELSE Append(InsertItem(SubSeq(sorted, 1, Len(sorted) - 1), item), sorted[Len(sorted)])

\* the items left in the order of the file: no sort
SortItems_FileOrder(files) == files

RECURSIVE SortItems(_)
SortItems(files) ==
    IF files = <<>> THEN <<>>
    ELSE InsertItem(SortItems(SubSeq(files, 1, Len(files) - 1)), files[Len(files)])

\* getChildren without the placeholder for the empty list
GetChildren_NoPlaceholder(hasElement, disk, fault) ==
    IF hasElement THEN <<>>
    ELSE LET excludedFiles == GetExcludedFiles(fault)
         IN  IF ~ws THEN <<>>
             ELSE SortItems([i \in 1..Len(excludedFiles) |-> FileItem(excludedFiles[i], disk)])

\* getChildren with the workspace check moved before the emptiness check
GetChildren_WorkspaceFirst(hasElement, disk, fault) ==
    IF hasElement THEN <<>>
    ELSE LET excludedFiles == GetExcludedFiles(fault)
         IN  IF ~ws THEN <<>>
             ELSE IF Len(excludedFiles) = 0 THEN <<Placeholder>>
             ELSE SortItems([i \in 1..Len(excludedFiles) |-> FileItem(excludedFiles[i], disk)])

\* getChildren(element): the items below `element`; hasElement is FALSE for the root
GetChildren(hasElement, disk, fault) ==
    IF hasElement THEN <<>>
    ELSE LET excludedFiles == GetExcludedFiles(fault)
         IN  IF Len(excludedFiles) = 0 THEN <<Placeholder>>
             ELSE IF ~ws THEN <<>>
             ELSE SortItems([i \in 1..Len(excludedFiles) |-> FileItem(excludedFiles[i], disk)])

(* ------------------------------- commands ------------------------------ *)

\* the entry of the exclude call whose handler is still suspended at its await
\* when the next call begins: the latest call, if it reported Added and has
\* not been resumed (handlers resume oldest first)
Overlapped ==
    IF last.cmd = "excludeFromGit" /\ last.outcome = "Added" /\ pending # <<>>
    THEN last.entry ELSE NoArg

\* the record of a call that went through a helper of the list store
StoreCall(cmd, arg, entry, r) ==
    [cmd |-> cmd, arg |-> arg, entry |-> entry, outcome |-> r.outcome, ok |-> r.ok,
     msgs |-> r.msgs, threw |-> r.threw, preDir |-> dir, preFile |-> file, preContent |-> content,
     overlapped |-> Overlapped, disk |-> {}, nodes |-> <<>>]

\* the record of a call that touched no file
PlainCall(cmd, outcome, msgs) ==
    [NoCall EXCEPT !.cmd = cmd, !.outcome = outcome, !.msgs = msgs,
                   !.preDir = dir, !.preFile = file, !.preContent = content]

\* the exclude call the next call has right before it, kept when the next
\* call is for the same entry and that call ended Added or AlreadyPresent
Previous(entry) ==
    IF last.cmd = "excludeFromGit" /\ last.ok /\ last.entry = entry THEN last ELSE NoCall

\* vs-git-away.excludeFromGit up to its await; uri is NoArg when the command
\* is run without a selected file. excludeFileFromGit has no await of its own
\* and calls the file system synchronously, so it runs to its end within this
\* step; the handler is then suspended until ResumeCommand.
ExcludeFromGitCommand(uri, fault) ==
    IF uri = NoArg
    THEN /\ last' = PlainCall("excludeFromGit", "NoSelection", <<"error">>)
         /\ prevAdd' = NoCall
         /\ UNCHANGED <<ws, dir, file, content, pending, notified>>
    ELSE LET r == ExcludeFileFromGit(FsPath(uri), fault)
             pathToAdd == Normalize(FsPath(uri))
         IN  /\ Len(pending) < MaxPending
             /\ Len(r.content) <= MaxContent
             /\ dir' = r.dir
             /\ file' = r.file
             /\ content' = r.content
             /\ pending' = Append(pending, r.ok)
             /\ last' = StoreCall("excludeFromGit", uri, pathToAdd, r)
             /\ prevAdd' = Previous(pathToAdd)
             /\ UNCHANGED <<ws, notified>>

\* the remove command with only the item checked: if (!item)
RemoveFromExcludeCommand_NoLabelCheck(label, fault) ==
    IF label = NoArg
    THEN /\ last' = [PlainCall("removeFromExclude", "NoSelection", <<"error">>)
                         EXCEPT !.arg = label]
         /\ prevAdd' = NoCall
         /\ UNCHANGED <<ws, dir, file, content, pending, notified>>
    ELSE LET r == RemoveFileFromExclude(label, fault)
         IN  /\ Len(pending) < MaxPending
             /\ dir' = r.dir
             /\ file' = r.file
             /\ content' = r.content
             /\ pending' = Append(pending, r.ok)
             /\ last' = StoreCall("removeFromExclude", label, label, r)
             /\ prevAdd' = Previous(label)
             /\ UNCHANGED <<ws, notified>>

\* vs-git-away.removeFromExclude up to its await; label is NoArg when the
\* command is run without a tree item
RemoveFromExcludeCommand(label, fault) ==
    IF label = NoArg \/ label = <<>>
    THEN /\ last' = [PlainCall("removeFromExclude", "NoSelection", <<"error">>)
                         EXCEPT !.arg = label]
         /\ prevAdd' = NoCall
         /\ UNCHANGED <<ws, dir, file, content, pending, notified>>
    ELSE LET r == RemoveFileFromExclude(label, fault)
         IN  /\ Len(pending) < MaxPending
             /\ dir' = r.dir
             /\ file' = r.file
             /\ content' = r.content
             /\ pending' = Append(pending, r.ok)
             /\ last' = StoreCall("removeFromExclude", label, label, r)
             /\ prevAdd' = Previous(label)
             /\ UNCHANGED <<ws, notified>>

\* the rest of a handler with the refresh made unconditional
ResumeCommand_AlwaysRefreshes ==
    /\ pending # <<>>
    /\ notified' = TRUE
    /\ pending' = Tail(pending)
    /\ UNCHANGED <<ws, dir, file, content, last, prevAdd>>

\* the rest of either handler after its await: if (success) gitAwayProvider.refresh()
ResumeCommand ==
    /\ pending # <<>>
    /\ notified' = (notified \/ Head(pending))
    /\ pending' = Tail(pending)
    /\ UNCHANGED <<ws, dir, file, content, last, prevAdd>>

\* the refresh command without its message
RefreshCommand_Silent ==
    /\ notified' = TRUE
    /\ last' = PlainCall("refreshExplorer", "Refreshed", <<>>)
    /\ prevAdd' = NoCall
    /\ UNCHANGED <<ws, dir, file, content, pending>>

\* vs-git-away.refreshExplorer
RefreshCommand ==
    /\ notified' = TRUE
    /\ last' = PlainCall("refreshExplorer", "Refreshed", <<"info">>)
    /\ prevAdd' = NoCall
    /\ UNCHANGED <<ws, dir, file, content, pending>>

\* the tree view asks the provider for the items below an element; hasElement
\* is FALSE for the root
QueryChildren(hasElement, disk, fault) ==
    /\ last' = [PlainCall("getChildren", "Queried", <<>>) EXCEPT
                   !.disk = IF hasElement THEN {} ELSE disk,
                   !.nodes = GetChildren(hasElement, disk, fault),
                   !.threw = IF ~hasElement /\ LoadThrows(fault) THEN "read" ELSE "none",
                   !.arg = IF hasElement THEN <<"item">> ELSE <<"root">>]
    /\ notified' = (notified /\ hasElement)
    /\ prevAdd' = NoCall
    /\ UNCHANGED <<ws, dir, file, content, pending>>

Next ==
    \/ \E uri \in Paths \cup {NoArg}, fault \in {"none", "mkdir", "read", "write"} :
           ExcludeFromGitCommand(uri, fault)
    \/ \E label \in Labels \cup {NoArg}, fault \in {"none", "read", "write"} :
           RemoveFromExcludeCommand(label, fault)
    \/ ResumeCommand
    \/ RefreshCommand
    \/ \E hasElement \in BOOLEAN, disk \in DiskStates, fault \in {"none", "read"} :
           QueryChildren(hasElement, disk, fault)

Spec == Init /\ [][Next]_vars

SpecFresh == InitFresh /\ [][Next]_vars

(* ------------------------------ properties ----------------------------- *)

\* the list load() returns in the current state
CurrentList == GetExcludedFiles("none")

\* the list load() returned before the call recorded in `call`
ListBefore(call) == IF ws /\ call.preFile THEN ParseEntries(call.preContent) ELSE <<>>

Elements(seq) == {seq[i] : i \in 1..Len(seq)}

Occurrences(seq, x) == Cardinality({i \in 1..Len(seq) : seq[i] = x})

NoDuplicates(seq) == \A i, j \in 1..Len(seq) : seq[i] = seq[j] => i = j

\* an entry in the form the list shows it: not empty, not a comment, no
\* white space around it
IsListEntry(p) == p # <<>> /\ ~StartsWithHash(p) /\ Trim(p) = p

\* the latest call is an exclude that ran to its end (Added or AlreadyPresent)
AddCompleted == last.cmd = "excludeFromGit" /\ last.ok

\* the latest call is a remove that reached the list store and met no I/O failure
RemoveCompleted ==
    last.cmd = "removeFromExclude" /\ last.outcome \in {"Removed", "NotFound", "FileMissing"}

\* the raw lines of the file before the latest call
LinesBefore == IF last.preFile THEN Split(last.preContent) ELSE <<>>

\* positions of the raw lines before the latest call whose trimmed value is e
Matching(e) == {i \in 1..Len(LinesBefore) : Trim(LinesBefore[i]) = e}

\* C1: add is idempotent. For every file whose list holds no entry twice and
\* every list entry p, two exclude calls for p in a row leave exactly one p in
\* the list, and the second call reports AlreadyPresent and writes nothing.
C1_AddTwiceIdempotent ==
    (/\ AddCompleted
     /\ prevAdd.cmd = "excludeFromGit"
     /\ IsListEntry(last.entry)
     /\ NoDuplicates(ListBefore(prevAdd)))
    => /\ last.outcome = "AlreadyPresent"
       /\ content = last.preContent
       /\ Occurrences(CurrentList, last.entry) = 1

\* C2: add deduplicates against trimmed raw lines. Whenever some raw line of
\* the file has a trimmed value equal to the (non-empty) entry, an exclude call
\* that runs to its end reports AlreadyPresent and leaves the file as it was.
C2_DedupAgainstTrimmedLines ==
    (AddCompleted /\ last.entry # <<>> /\ Matching(last.entry) # {})
    => (last.outcome = "AlreadyPresent" /\ content = last.preContent)

\* C3: starting from an absent or empty exclusion file, the list never holds
\* the same entry twice, whatever exclude and remove calls are made.
C3_NoDuplicateEntries == NoDuplicates(CurrentList)

\* C4 as stated: for every file and every entry p, an exclude call for p
\* followed at once by a remove call for p (no I/O failure) leaves the set of
\* list entries as it was before the exclude call.
C4_RoundTripAnyFile ==
    (RemoveCompleted /\ prevAdd.cmd = "excludeFromGit")
    => Elements(CurrentList) = Elements(ListBefore(prevAdd))

\* C4 as amended: the same, for a list entry p that the list did not hold
\* before the exclude call.
C4_RoundTripWhenAbsent ==
    (/\ RemoveCompleted
     /\ prevAdd.cmd = "excludeFromGit"
     /\ IsListEntry(last.entry)
     /\ last.entry \notin Elements(ListBefore(prevAdd)))
    => /\ prevAdd.outcome = "Added"
       /\ last.outcome = "Removed"
       /\ Elements(CurrentList) = Elements(ListBefore(prevAdd))

\* an entry was added to a list that held other entries and removed again
C4_Witness ==
    /\ RemoveCompleted
    /\ prevAdd.cmd = "excludeFromGit"
    /\ IsListEntry(last.entry)
    /\ last.entry \notin Elements(ListBefore(prevAdd))
    /\ ListBefore(prevAdd) # <<>>

\* C5: an added file becomes visible. Whenever an exclude call for a selected
\* file reports success, its entry p is in the list right afterwards and the
\* root display query shows an item labelled p.
C5_AddedIsListed ==
    (AddCompleted /\ last.arg # <<>>)
    => /\ last.entry \in Elements(CurrentList)
       /\ \A disk \in DiskStates :
              \E i \in 1..Len(GetChildren(FALSE, disk, "none")) :
                  GetChildren(FALSE, disk, "none")[i].label = last.entry

\* the elements of seq at the positions in keep, in their order in seq
Subsequence(seq, keep) ==
    LET F[i \in 0..Len(seq)] ==
            IF i = 0 THEN <<>>
            ELSE IF i \in keep THEN Append(F[i - 1], seq[i]) ELSE F[i - 1]
    IN  F[Len(seq)]

\* the raw lines before the latest call whose trimmed value differs from e
Survivors(e) == Subsequence(LinesBefore, (1..Len(LinesBefore)) \ Matching(e))

\* the raw lines of the file now; a file of zero bytes holds no line
LinesNow == IF content = <<>> THEN <<>> ELSE Split(content)

\* C6: a successful remove is exact and keeps the order. Whenever a remove
\* call for e meets a file with at least one raw line whose trimmed value is e
\* (and no I/O failure), it reports Removed and the file afterwards holds
\* exactly the other raw lines, unmodified and in their original order.
C6_RemoveExact ==
    (RemoveCompleted /\ last.preFile /\ Matching(last.entry) # {})
    => /\ last.outcome = "Removed"
       /\ file
       /\ IF Survivors(last.entry) = <<>>
          THEN content = <<>>
          ELSE Split(content) = Survivors(last.entry)

\* a remove took two lines out of the file and left another line in place
C6_Witness ==
    /\ RemoveCompleted
    /\ last.preFile
    /\ Cardinality(Matching(last.entry)) >= 2
    /\ Survivors(last.entry) # <<>>

\* C7: a failed remove changes nothing on disk. Without the file the call
\* reports FileMissing and creates neither the file nor its directory; with a
\* file that has no raw line whose trimmed value is e it reports NotFound and
\* leaves the content as it was.
C7_FailedRemoveKeepsDisk ==
    RemoveCompleted
    => /\ ~last.preFile
          => (last.outcome = "FileMissing" /\ ~file /\ dir = last.preDir /\ content = <<>>)
       /\ (last.preFile /\ Matching(last.entry) = {})
          => (last.outcome = "NotFound" /\ file /\ dir /\ content = last.preContent)
       /\ last.outcome \in {"FileMissing", "NotFound"}
          => (file = last.preFile /\ dir = last.preDir /\ content = last.preContent)

\* a remove found neither the file nor its directory and created neither
C7_Witness ==
    /\ RemoveCompleted
    /\ last.outcome = "FileMissing"
    /\ ~last.preDir
    /\ ~dir
    /\ ~file

\* some raw line of content c has the trimmed value of e
HoldsLine(c, e) == \E i \in 1..Len(Split(c)) : Trim(Split(c)[i]) = Trim(e)

\* the latest call is an exclude for p that reported Added and began while the
\* handler of an exclude for another entry q, which had reported Added, was
\* still suspended at its await
OverlappingAdds ==
    /\ last.cmd = "excludeFromGit"
    /\ last.outcome = "Added"
    /\ last.overlapped # NoArg
    /\ last.overlapped # last.entry

\* C8 as stated, for the overlapping pairs of the model: two overlapping
\* exclude calls for distinct entries that both reported Added read the same
\* content, and the file written last is missing one of the two entries.
C8_LostUpdate ==
    OverlappingAdds
    => /\ ~HoldsLine(last.preContent, last.overlapped)
       /\ ~(HoldsLine(content, last.overlapped) /\ HoldsLine(content, last.entry))

\* C8 as amended: excludeFileFromGit has no await between its read and its
\* write, so of two overlapping exclude calls for distinct entries that both
\* reported Added, the later one read a file that already held the earlier
\* entry, and the file it wrote holds both entries.
C8_NoLostUpdate ==
    OverlappingAdds
    => /\ HoldsLine(last.preContent, last.overlapped)
       /\ HoldsLine(content, last.overlapped)
       /\ HoldsLine(content, last.entry)

\* two exclude calls for distinct list entries overlapped and both reported Added
C8_Witness ==
    /\ OverlappingAdds
    /\ IsListEntry(last.entry)
    /\ IsListEntry(last.overlapped)
    /\ Len(pending) = 2

\* the latest call is a display query for the root
RootQuery == last.cmd = "getChildren" /\ last.arg = <<"root">>

\* C9: whenever the list is empty, the root display query returns exactly one
\* item, the informational placeholder, which carries no file-open action.
C9_PlaceholderForEmptyList ==
    (RootQuery /\ Len(CurrentList) = 0)
    => /\ Len(last.nodes) = 1
       /\ last.nodes[1].label = PlaceholderLabel
       /\ last.nodes[1].iconPath = "info"
       /\ last.nodes[1].command = NoCommand
       /\ last.nodes[1].contextValue # "excludedFile"

\* the root was queried with a workspace open and a file that holds only a comment
C9_Witness ==
    /\ RootQuery
    /\ ws
    /\ file
    /\ content # <<>>
    /\ Len(CurrentList) = 0
    /\ Len(last.nodes) = 1

\* C10 as stated: with no workspace root the root display query builds no
\* items and returns the empty sequence.
C10_NoWorkspaceEmptyResult == (RootQuery /\ ~ws) => last.nodes = <<>>

\* C10 as amended: with no workspace root the list is empty, so the root
\* display query builds no file item and returns the one placeholder item; the
\* empty sequence is what a query below an item returns.
C10_NoWorkspacePlaceholder ==
    /\ (RootQuery /\ ~ws) => last.nodes = <<Placeholder>>
    /\ (last.cmd = "getChildren" /\ last.arg = <<"item">>) => last.nodes = <<>>

\* the root was queried with no workspace open
C10_Witness == RootQuery /\ ~ws /\ Len(last.nodes) = 1

(* C11: failures of the file system *)

\* the latest call is an exclude or a remove in which a file-system call threw
StoreCallThrew ==
    last.cmd \in {"excludeFromGit", "removeFromExclude"} /\ last.threw # "none"

\* C11: when the directory creation, the read or the write throws during an
\* exclude or a remove, the call ends with one error message and the result
\* false, so that its handler, once resumed, fires no refresh; when the read
\* throws during the load of a root display query, the load gives the empty
\* list, which the query shows as the placeholder.
C11_IOFailuresCaught ==
    /\ StoreCallThrew
           => /\ last.outcome = "IOError"
              /\ ~last.ok
              /\ last.msgs = <<"error">>
              /\ pending # <<>> => ~pending[Len(pending)]
    /\ (RootQuery /\ last.threw = "read") => last.nodes = <<Placeholder>>

\* an exclude created the directory and its write threw; its handler is suspended
C11_Witness ==
    /\ last.cmd = "excludeFromGit"
    /\ last.threw = "write"
    /\ ~last.preDir
    /\ dir
    /\ pending # <<>>

(* C12: the refresh after a command *)

\* the step is the completion of the oldest suspended handler
HandlerCompletes == pending # <<>> /\ pending' = Tail(pending)

\* the latest call went through the list store and its handler is the newest
\* of the suspended ones
NewestSuspended(cmd) == last.cmd = cmd /\ last.outcome # "NoSelection" /\ pending # <<>>

\* C12: the handler of an exclude that ended Added, and of a remove that
\* ended Removed, completes with the change notification fired; the handler
\* of a remove that ended FileMissing, NotFound or with an I/O error
\* completes without firing it; a command fires nothing before its handler
\* completes, and a remove that ended NoSelection has no handler left to
\* complete.
C12_RefreshFollowsSuccess ==
    /\ []((NewestSuspended("excludeFromGit") /\ last.outcome = "Added")
              => pending[Len(pending)])
    /\ []((NewestSuspended("removeFromExclude") /\ last.outcome = "Removed")
              => pending[Len(pending)])
    /\ []((NewestSuspended("removeFromExclude")
               /\ last.outcome \in {"FileMissing", "NotFound", "IOError"})
              => ~pending[Len(pending)])
    /\ [][HandlerCompletes
              => /\ Head(pending) => notified'
                 /\ ~Head(pending) => notified' = notified]_vars
    /\ [][(~HandlerCompletes /\ last'.cmd \in {"excludeFromGit", "removeFromExclude"})
              => /\ notified' = notified
                 /\ last'.outcome = "NoSelection" => pending' = pending]_vars

\* the handler of an exclude that ended Added has completed and the change
\* notification is out
C12_Witness ==
    /\ last.cmd = "excludeFromGit"
    /\ last.outcome = "Added"
    /\ pending = <<>>
    /\ notified

(* C13: a remove that cannot start *)

\* the latest call is a remove given no tree item or an item with an empty label
RemoveWithoutEntry == last.cmd = "removeFromExclude" /\ last.arg \in {NoArg, <<>>}

\* the latest call is a remove of a labelled item with no workspace open
RemoveWithoutWorkspace ==
    last.cmd = "removeFromExclude" /\ last.arg \notin {NoArg, <<>>} /\ ~ws

\* the latest call left the directory and the file as it found them
DiskUntouched ==
    /\ dir = last.preDir
    /\ file = last.preFile
    /\ content = last.preContent

\* C13 as stated: a remove with no workspace root, or with a missing or empty
\* entry, ends NoSelection with one error message and leaves the file as it was.
C13_NoSelectionWithoutWorkspace ==
    (RemoveWithoutEntry \/ (last.cmd = "removeFromExclude" /\ ~ws))
        => /\ last.outcome = "NoSelection"
           /\ last.msgs = <<"error">>
           /\ DiskUntouched

\* C13 as amended: a remove with a missing or empty entry ends NoSelection,
\* and a remove of an entry with no workspace root ends NoWorkspace; either
\* way it shows one error message, never a warning, returns false and leaves
\* the file as it was.
C13_NoSelectionOrNoWorkspace ==
    /\ RemoveWithoutEntry => last.outcome = "NoSelection"
    /\ RemoveWithoutWorkspace => last.outcome = "NoWorkspace"
    /\ (RemoveWithoutEntry \/ RemoveWithoutWorkspace)
           => /\ last.msgs = <<"error">>
              /\ ~last.ok
              /\ DiskUntouched

\* a remove was run on an item with an empty label while the file holds a blank line
C13_Witness ==
    /\ RemoveWithoutEntry
    /\ last.arg = <<>>
    /\ ws
    /\ file
    /\ Includes(TrimAll(Split(content)), <<>>)

(* C14: what load() returns *)

\* the positions of the line feeds of a text, and the k-th of them in order
LineFeeds(text) == {i \in 1..Len(text) : text[i] = NL}

LineFeedsBefore(text, i) == Cardinality({j \in LineFeeds(text) : j < i})

\* the k-th line of a text, k from 1: the characters with k-1 line feeds before them
LineAt(text, k) ==
    LET Keep(i) == text[i] # NL /\ LineFeedsBefore(text, i) = k - 1
        idx == {i \in 1..Len(text) : Keep(i)}
    IN  IF idx = {} THEN <<>>
        ELSE LET lo == CHOOSE i \in idx : \A j \in idx : i <= j
                 hi == CHOOSE i \in idx : \A j \in idx : j <= i
             IN  SubSeq(text, lo, hi)

\* a line without the white space around it: from its first to its last
\* character that is not white space
Stripped(line) ==
    LET idx == {i \in 1..Len(line) : line[i] \notin WhiteSpace}
    IN  IF idx = {} THEN <<>>
        ELSE LET lo == CHOOSE i \in idx : \A j \in idx : i <= j
                 hi == CHOOSE i \in idx : \A j \in idx : j <= i
             IN  SubSeq(line, lo, hi)

\* the numbers of the lines of a text that hold an entry
EntryLineNumbers(text) ==
    {k \in 1..(Cardinality(LineFeeds(text)) + 1) :
        /\ Stripped(LineAt(text, k)) # <<>>
        /\ Stripped(LineAt(text, k))[1] # HASH}

\* the entries of a text by line number: the n-th entry is the stripped line
\* with n-1 entry lines before it
EntriesByLine(text) ==
    LET ks == EntryLineNumbers(text)
        Nth(n) == CHOOSE k \in ks : Cardinality({m \in ks : m < k}) = n - 1
    IN  [n \in 1..Cardinality(ks) |-> Stripped(LineAt(text, Nth(n)))]

\* C14: with a workspace open, load() returns the lines of the file without
\* the white space around them, leaving out the empty ones and those that
\* begin with '#', in the order of the file and with repetitions kept; when
\* the file does not exist it returns the empty list, and a display query,
\* which loads the list, creates neither the directory nor the file.
C14_LoadParsesFile ==
    /\ (ws /\ file) => CurrentList = EntriesByLine(content)
    /\ ~file => CurrentList = <<>>
    /\ RootQuery => DiskUntouched

\* the file holds an entry twice, once with white space before it
C14_Witness ==
    /\ ws
    /\ file
    /\ Len(CurrentList) = 2
    /\ CurrentList[1] = CurrentList[2]
    /\ \E k \in 1..Len(Split(content)) : Trim(Split(content)[k]) # Split(content)[k]

(* C15: what a successful add leaves in the file *)

\* the lines of a text that are not blank, without the white space around them
NonBlankLines(text) ==
    LET NotBlank(line) == line # <<>> IN SelectSeq(TrimAll(Split(text)), NotBlank)

\* C15: whenever an exclude of a file with entry e ends Added, the file ends
\* with exactly one line feed, its last line is e, the lines before e are the
\* non-blank lines the file had (entries and comments, compared without the
\* white space around them) in their order, and the list afterwards is the
\* list before followed by e.
C15_AddAppendsAndPreserves ==
    (last.cmd = "excludeFromGit" /\ last.outcome = "Added" /\ last.entry # <<>>)
    => LET lines == Split(content)
           n == Len(lines)
       IN  /\ content[Len(content)] = NL
           /\ Len(content) >= 2 => content[Len(content) - 1] # NL
           /\ n >= 2
           /\ lines[n - 1] = last.entry
           /\ NonBlankLines(Join(SubSeq(lines, 1, n - 2)))
                  = (IF last.preFile THEN NonBlankLines(last.preContent) ELSE <<>>)
           /\ CurrentList = Append(ListBefore(last), last.entry)

(* C16: the directory of the exclusion file is missing *)

\* the latest call is an exclude of a selected file that found no .git/info
\* directory, with a workspace open and no file-system call throwing
AddWithoutDirectory ==
    /\ last.cmd = "excludeFromGit"
    /\ last.outcome # "NoSelection"
    /\ ws
    /\ ~last.preDir
    /\ last.threw = "none"

\* C16: while the directory of the exclusion file does not exist the list is
\* empty, and an exclude with a non-empty entry p that finds it missing
\* creates it, ends Added and leaves a file that holds p and one line feed.
C16_MissingDirectoryTolerated ==
    /\ ~dir => CurrentList = <<>>
    /\ (AddWithoutDirectory /\ last.entry # <<>>)
           => /\ last.outcome = "Added"
              /\ dir
              /\ file
              /\ content = last.entry \o <<NL>>

\* an exclude of a\b found no directory and wrote a/b
C16_Witness ==
    /\ AddWithoutDirectory
    /\ last.arg = <<"a", BSL, "b">>
    /\ dir
    /\ content = <<"a", FSL, "b", NL>>

(* C17: the items of the view *)

\* the labels of the items the latest query returned
NodeLabels == [i \in 1..Len(last.nodes) |-> last.nodes[i].label]

\* C17: whenever the list is not empty and a workspace is open, the root
\* display query returns one item per element of the list, the same entries
\* with the same repetitions; an item carries the open command exactly when
\* the entry joined to the workspace root exists on disk at the time of the
\* query; and the items are in non-decreasing order of their entries.
C17_NodesMirrorList ==
    (RootQuery /\ ws /\ last.threw = "none" /\ CurrentList # <<>>)
    => /\ Len(last.nodes) = Len(CurrentList)
       /\ \A x \in Elements(CurrentList) \cup Elements(NodeLabels) :
              Occurrences(NodeLabels, x) = Occurrences(CurrentList, x)
       /\ \A i \in 1..Len(last.nodes) :
              /\ last.nodes[i].command # NoCommand
                     <=> PathJoin(WorkspaceRoot, last.nodes[i].label).rest \in last.disk
              /\ last.nodes[i].command # NoCommand
                     => last.nodes[i].command.command = "vscode.open"
       /\ \A i, j \in 1..Len(last.nodes) :
              i < j => LocaleCompare(NodeLabels[i], NodeLabels[j]) <= 0

\* the file lists b before a, a exists on disk and b does not: the query
\* returned a with the open command, then b without it
C17_Witness ==
    /\ RootQuery
    /\ CurrentList = << <<"b">>, <<"a">> >>
    /\ last.disk = {<<"a">>}
    /\ NodeLabels = << <<"a">>, <<"b">> >>
    /\ last.nodes[1].command # NoCommand
    /\ last.nodes[2].command = NoCommand

(* C18: the list after a remove *)

\* C18: after a remove of e that met no I/O failure (it ended Removed,
\* NotFound or FileMissing) the list does not contain e.
C18_RemovedEntryIsGone ==
    RemoveCompleted => last.entry \notin Elements(CurrentList)

\* a remove ended Removed for an entry the list held twice
C18_Witness ==
    /\ last.cmd = "removeFromExclude"
    /\ last.outcome = "Removed"
    /\ Occurrences(ListBefore(last), last.entry) = 2
    /\ file

(* C19: one notification per command *)

\* the latest call is one of the three commands
CommandCall == last.cmd \in {"excludeFromGit", "removeFromExclude", "refreshExplorer"}

\* C19: every invocation of excludeFromGit, removeFromExclude or
\* refreshExplorer, on every path, shows exactly one message, and a handler
\* suspended at its await can always complete.
C19_OneNotificationPerCommand ==
    /\ CommandCall => Len(last.msgs) = 1
    /\ pending # <<>> => ENABLED ResumeCommand

\* a remove ended NotFound with its one warning and its handler has completed
C19_Witness ==
    /\ last.cmd = "removeFromExclude"
    /\ last.outcome = "NotFound"
    /\ last.msgs = <<"warning">>
    /\ pending = <<>>

====
